---- MODULE Spec2Model ----
(***************************************************************************)
(* A model of the Vanilla-Todo component toolkit: Component.js (reactive   *)
(* state proxy, microtask-batched flush, hook slots, effects, mount and    *)
(* remove, useContext), Context.js (scoped provider / subscriber channel)  *)
(* and Router.js (navigation between mounted components).                  *)
(*                                                                         *)
(* JavaScript runs one handler at a time, so every public operation is one *)
(* atomic action.  An action starts from the current variables packed in a *)
(* record (World), threads that record through operators that follow the   *)
(* handler's code line by line, and commits the result.  Each operator      *)
(* appends to w.log the callbacks it invokes and the DOM writes it makes,   *)
(* in the order the code makes them: w.log is the trace of one operation.   *)
(* The trace is not kept between operations; a property of an operation's   *)
(* trace is stated of the operation applied to the current state.           *)
(***************************************************************************)
EXTENDS Integers, Sequences, FiniteSets, TLC

\* ------------------------------------------------------------------ bounds
MaxVal == 1
MaxNodes == 1
MaxDeps == 1
MaxEntries == 2
MaxHistory == 3
MaxQueue == 2
MaxBurst == 3
MaxBound == 3
MaxId == 2
MaxVersion == 3
\* Hook calls per component: in the specification of the whole component, and
\* in the specification of the hooks alone (two invocations of the hook code).
CoreHooks == 2
MaxHooks == 4

\* ------------------------------------------------------------- the universe
\* Two components: P was constructed with props.children = [K].
Comps == {"P", "K"}
Vals == 0 .. MaxVal
UserKeys == {"count"}
NoElement == "none"
Root == "root"
\* document.documentElement, the parent of the root, and all the elements.
DocumentElement == "html"
Elements == {DocumentElement, Root, "eP", "eK"}

\* The elements a context provider is registered on, and the callbacks that
\* user code subscribes to a context.
ProviderEls == {Root, "eP"}
Callbacks == {"f", "g"}

\* The callback (nextValue) => setVal(nextValue) that useContext subscribes
\* for a component, and the component of such a callback.
ConsumerCb(c) == IF c = "P" THEN "useP" ELSE "useK"

ConsumerOf(fn) == IF fn = "useP" THEN "P" ELSE "K"

Consumers == {ConsumerCb(c) : c \in Comps}

\* A component that has not called useContext.
NoConsumer == [active |-> FALSE, scope |-> 0, slot |-> 0]

\* The paths a router is asked for; a factory is registered for the first two
\* only: it returns P for one and K for the other.
Paths == {"/a", "/b", "/x"}
RoutablePaths == {"/a", "/b"}
NoComponent == "null"

Factory(path) == IF path = "/a" THEN "P" ELSE "K"

\* `__hook_state_${idx}` (Component.js:170), as a table over the slots in range.
HookKeyNames ==
  << "__hook_state_0", "__hook_state_1", "__hook_state_2", "__hook_state_3",
     "__hook_state_4", "__hook_state_5", "__hook_state_6", "__hook_state_7" >>

HookKey(idx) == HookKeyNames[idx + 1]

\* String(value), what a text node shows for a number.
DigitNames == << "0", "1", "2", "3", "4", "5", "6", "7", "8", "9" >>

ToText(value) == DigitNames[value + 1]

\* this.element of each component.
ElementOf(c) == IF c = "P" THEN "eP" ELSE "eK"

\* P is a component with hook-bearing code and bound text nodes; K, its child,
\* is a plain component that is only written, flushed, mounted and removed.
HookUsers == {"P"}

\* The hook-bearing code of a component: the hooks it calls, in this fixed
\* order, every time it is invoked.  Each of these calls takes one slot.
Program == << "useState", "useEffect" >>

ProgLen == Len(Program)

\* deps: absent (undefined), or an array of at most MaxDeps values.
NoDeps == [present |-> FALSE, arr |-> << >>]

DepsOf(arr) == [present |-> TRUE, arr |-> arr]

\* The arrays a caller may hold and pass as dependencies.
Arrays == UNION {[1 .. n -> Vals] : n \in 0 .. MaxDeps}

DepsArgs ==
  {NoDeps} \cup {DepsOf(a) : a \in UNION {[1 .. n -> Vals] : n \in 0 .. MaxDeps}}

\* The dependency arguments used where their values do not matter.
CoreDeps == {NoDeps, DepsOf(<< >>)}

VARIABLES
  state,              \* c -> (key -> value): the Proxy's target
  pendingKeys,        \* c -> __pendingKeys, a Set in insertion order
  flushScheduled,     \* c -> __flushScheduled
  isMounted,          \* c -> __isMounted
  boundElements,      \* c -> (key -> sequence of text nodes)
  nodeText,           \* node -> its textContent
  hookCounter,        \* c -> __hookCounter
  hookMeta,           \* c -> (slot -> [deps, cleanup]); absent slots are holes
  effectQueue,        \* c -> __effectQueue
  childrenComponents, \* c -> childrenComponents
  eventListeners,     \* c -> number of registered listeners
  parentNode,         \* element -> its parent element, or NoElement
  microtasks,         \* the host's microtask queue: components whose __flush is queued
  defaultValue,       \* Context.defaultValue
  entries,            \* the { value, subs } objects registerProvider created, oldest first
  providers,          \* Context.providers: element -> its entry (a place in entries), or 0
  globalSubs,         \* Context.globalSubs, a Set in insertion order
  routes,             \* Router.routes: the paths with a registered factory
  currentComponent,   \* Router.currentComponent, or NoComponent
  history,            \* the session history: the paths of its entries, the current one last
  callerArray,        \* the contents of an array object that the caller of useEffect keeps
  sharedDeps,         \* c -> the slots whose meta.deps is that array object itself
  todoState,          \* the todo store's state: [todos, nextId] (app.js)
  consumer,           \* c -> what the closures of c's useContext call hold: scope and slot
  dirty,              \* c -> keys whose value changed since c's last flush began
  removed,            \* c -> remove() has run and mount() has not since
  pendingAtRemove     \* c -> the flush now queued for c was queued when remove() ran

vars ==
  << state, pendingKeys, flushScheduled, isMounted, boundElements, nodeText,
     hookCounter, hookMeta, effectQueue, childrenComponents, eventListeners,
     parentNode, microtasks, defaultValue, entries, providers, globalSubs,
     routes, currentComponent, history, callerArray, sharedDeps, todoState, consumer, dirty, removed, pendingAtRemove >>

\* ----------------------------------------------------------------- helpers
Put(f, k, v) == [x \in DOMAIN f \cup {k} |-> IF x = k THEN v ELSE f[x]]

Contains(seq, x) == \E i \in 1 .. Len(seq) : seq[i] = x

Count(seq, x) == Cardinality({i \in 1 .. Len(seq) : seq[i] = x})

\* One entry of the trace.
Ev(ev, c, key, num, txt) == [ev |-> ev, c |-> c, key |-> key, num |-> num, txt |-> txt]

Note(w, e) == [w EXCEPT !.log = Append(@, e)]

\* The variables as one record, and back.
World ==
  [ state |-> state, pendingKeys |-> pendingKeys, flushScheduled |-> flushScheduled,
    isMounted |-> isMounted, boundElements |-> boundElements, nodeText |-> nodeText,
    hookCounter |-> hookCounter, hookMeta |-> hookMeta, effectQueue |-> effectQueue,
    childrenComponents |-> childrenComponents, eventListeners |-> eventListeners,
    parentNode |-> parentNode, microtasks |-> microtasks, removed |-> removed,
    pendingAtRemove |-> pendingAtRemove, defaultValue |-> defaultValue,
    entries |-> entries, providers |-> providers, globalSubs |-> globalSubs,
    consumer |-> consumer, routes |-> routes, currentComponent |-> currentComponent,
    history |-> history, callerArray |-> callerArray, sharedDeps |-> sharedDeps,
    todoState |-> todoState,
    log |-> << >>, thrown |-> FALSE ]

\* Keys of c whose stored value differs between the state before and w.
ChangedKeys(w, c) ==
  {k \in DOMAIN w.state[c] : k \notin DOMAIN state[c] \/ state[c][k] # w.state[c][k]}

\* An exception that leaves the operation is the last entry of its trace.
Closed(w) == IF w.thrown THEN Append(w.log, Ev("uncaught", "", "", 0, "")) ELSE w.log

Kinds(trace) == {trace[i].ev : i \in 1 .. Len(trace)}

Commit(w, flushed) ==
  /\ state' = w.state
  /\ pendingKeys' = w.pendingKeys
  /\ flushScheduled' = w.flushScheduled
  /\ isMounted' = w.isMounted
  /\ boundElements' = w.boundElements
  /\ nodeText' = w.nodeText
  /\ hookCounter' = w.hookCounter
  /\ hookMeta' = w.hookMeta
  /\ effectQueue' = w.effectQueue
  /\ childrenComponents' = w.childrenComponents
  /\ eventListeners' = w.eventListeners
  /\ parentNode' = w.parentNode
  /\ microtasks' = w.microtasks
  /\ defaultValue' = w.defaultValue
  /\ entries' = w.entries
  /\ providers' = w.providers
  /\ globalSubs' = w.globalSubs
  /\ consumer' = w.consumer
  /\ routes' = w.routes
  /\ currentComponent' = w.currentComponent
  /\ history' = w.history
  /\ callerArray' = w.callerArray
  /\ sharedDeps' = w.sharedDeps
  /\ todoState' = w.todoState
  /\ removed' = w.removed
  /\ pendingAtRemove' = [x \in Comps |-> x \notin flushed /\ w.pendingAtRemove[x]]
  /\ dirty' = [x \in Comps |->
                 (IF x \in flushed THEN {} ELSE dirty[x]) \cup ChangedKeys(w, x)]

\* --------------------------------------------------------- the state proxy
\* queueMicrotask(() => this.__flush())
QueueFlush(w, c) ==
  [Note(w, Ev("queueMicrotask", c, "", 0, "")) EXCEPT !.microtasks = Append(@, c)]

\* The set trap without its __flushScheduled test: every write queues a flush.
ProxySetAlwaysQueues(w, c, key, value) ==
  IF key \in DOMAIN w.state[c] /\ w.state[c][key] = value
  THEN Note(w, Ev("set-noop", c, key, value, ""))
  ELSE QueueFlush(
         [Note(w, Ev("set", c, key, value, "")) EXCEPT
            !.state[c] = Put(@, key, value),
            !.pendingKeys[c] = IF Contains(@, key) THEN @ ELSE Append(@, key),
            !.flushScheduled[c] = TRUE],
         c)

\* The set trap without its identity test: an equal value is stored and marked too.
ProxySetNoIdentityTest(w, c, key, value) ==
  LET w1 == [Note(w, Ev("set", c, key, value, "")) EXCEPT
               !.state[c] = Put(@, key, value),
               !.pendingKeys[c] = IF Contains(@, key) THEN @ ELSE Append(@, key)]
  IN IF ~w1.flushScheduled[c]
     THEN QueueFlush([w1 EXCEPT !.flushScheduled[c] = TRUE], c)
     ELSE w1

\* The set trap of this.state.
ProxySet(w, c, key, value) ==
  IF key \in DOMAIN w.state[c] /\ w.state[c][key] = value
  THEN Note(w, Ev("set-noop", c, key, value, ""))
  ELSE
    LET w1 == [Note(w, Ev("set", c, key, value, "")) EXCEPT
                 !.state[c] = Put(@, key, value),
                 !.pendingKeys[c] = IF Contains(@, key) THEN @ ELSE Append(@, key)]
    IN IF ~w1.flushScheduled[c]
       THEN QueueFlush([w1 EXCEPT !.flushScheduled[c] = TRUE], c)
       ELSE w1

\* this.state[key] ?? ""  as the text a node is given.
TextFor(w, c, key) ==
  IF key \in DOMAIN w.state[c] THEN ToText(w.state[c][key]) ELSE ""

\* setState(partial): one proxy write per entry, in the entries' order.
RECURSIVE SetStateOp(_, _, _)
SetStateOp(w, c, partial) ==
  IF Len(partial) = 0 THEN w
  ELSE SetStateOp(ProxySet(w, c, partial[1][1], partial[1][2]), c, Tail(partial))

\* bindText(key, node): the node is appended, then shown the current value at once.
BindTextOp(w, c, key, node) ==
  LET w1 == [w EXCEPT !.boundElements[c] =
                        IF key \in DOMAIN @ THEN [@ EXCEPT ![key] = Append(@, node)]
                        ELSE Put(@, key, << node >>)]
  IN Note([w1 EXCEPT !.nodeText = Put(@, node, TextFor(w1, c, key))],
          Ev("text", c, key, node, TextFor(w1, c, key)))

\* ------------------------------------------------------------------ Context
\* A scope is a place in entries (a provider's entry) or GlobalScope.
GlobalScope == 0

\* providerElement && this.providers.has(providerElement): the scope an element resolves to.
ScopeOf(w, el) == IF el # NoElement THEN w.providers[el] ELSE GlobalScope

SubsOf(w, scope) == IF scope = GlobalScope THEN w.globalSubs ELSE w.entries[scope].subs

WithSubs(w, scope, subs) ==
  IF scope = GlobalScope THEN [w EXCEPT !.globalSubs = subs]
  ELSE [w EXCEPT !.entries[scope].subs = subs]

ValueOf(w, scope) == IF scope = GlobalScope THEN w.defaultValue ELSE w.entries[scope].value

\* getValue(providerElement)
GetValue(w, el) == ValueOf(w, ScopeOf(w, el))

\* Set.prototype.add and delete on a Set kept in insertion order.
SetAdd(subs, fn) == IF Contains(subs, fn) THEN subs ELSE Append(subs, fn)

SetDelete(subs, fn) == SelectSeq(subs, LAMBDA x : x # fn)

\* registerProvider handing the element's previous subscribers to the new entry.
RegisterProviderKeepsSubs(w, el, value) ==
  [w EXCEPT !.entries = Append(@, [value |-> value,
                                   subs |-> IF w.providers[el] = 0 THEN << >>
                                            ELSE w.entries[w.providers[el]].subs]),
            !.providers[el] = Len(w.entries) + 1]

\* registerProvider(element, value): a fresh entry with no subscribers.
RegisterProviderOp(w, el, value) ==
  [w EXCEPT !.entries = Append(@, [value |-> value, subs |-> << >>]),
            !.providers[el] = Len(w.entries) + 1]

\* unregisterProvider(element)
UnregisterProviderOp(w, el) == [w EXCEPT !.providers[el] = GlobalScope]

\* subscribe(fn, { providerElement }): the unsubscribe it returns keeps the
\* entry (or globalSubs) that was resolved now.
SubscribeOp(w, fn, el) ==
  LET scope == ScopeOf(w, el)
  IN WithSubs(w, scope, SetAdd(SubsOf(w, scope), fn))

\* The function subscribe returned: () => entry.subs.delete(fn)
UnsubscribeOp(w, u) == WithSubs(w, u.scope, SetDelete(SubsOf(w, u.scope), u.fn))

\* ----------------------------------------------------------- the todo store
\* initialState of app.js; a todo is {id, text, done, version} (its two
\* timestamps play no part in the keys and are left out).
initialState == [todos |-> << >>, nextId |-> 1]

\* The ids the callers pass, the texts typed, and what trim() makes of them.
Ids == 1 .. MaxId + 1
Inputs == {"", " ", "a", " b"}
Trim(text) ==
  CASE text = " " -> ""
    [] text = " b" -> "b"
    [] OTHER -> text

\* The patches given to updateTodo: any of the fields text, done and id.
Patches ==
  {<< >>}
    \cup {Put(<< >>, "text", t) : t \in {"a", "b"}}
    \cup {Put(<< >>, "done", d) : d \in BOOLEAN}
    \cup {Put(<< >>, "id", i) : i \in Ids}
    \cup {Put(Put(<< >>, "text", t), "id", i) : t \in {"a", "b"}, i \in Ids}

\* Object.assign({}, a, b): the properties of a, overwritten and extended by those of b.
Assign(a, b) == [f \in DOMAIN a \cup DOMAIN b |-> IF f \in DOMAIN b THEN b[f] ELSE a[f]]

\* A copy of the todos without the key: delete todos3[action.id]
Without(todos, key) == [k \in DOMAIN todos \ {key} |-> todos[k]]

\* reducer(s, action) of the store
TodoReducer(s, action) ==
  CASE action.type = "ADD" ->
         LET id == s.nextId
             todo == [id |-> id, text |-> action.text, done |-> FALSE, version |-> 1]
         IN [nextId |-> id + 1, todos |-> Put(s.todos, id, todo)]
    [] action.type = "UPDATE" ->
         IF action.id \notin DOMAIN s.todos THEN s
         ELSE LET existing == s.todos[action.id]
                  updated == Assign(Assign(existing, action.patch),
                                    [version |-> existing.version + 1])
              IN [nextId |-> s.nextId, todos |-> Put(s.todos, action.id, updated)]
    [] action.type = "DELETE" ->
         IF action.id \notin DOMAIN s.todos THEN s
         ELSE [nextId |-> s.nextId, todos |-> Without(s.todos, action.id)]
    [] action.type = "CLEAR" -> [nextId |-> 1, todos |-> << >>]
    [] action.type = "TOGGLE_ALL" ->
         LET allDone == \A k \in DOMAIN s.todos : s.todos[k].done
         IN [nextId |-> s.nextId,
             todos |-> [k \in DOMAIN s.todos |->
                          Assign(s.todos[k], [done |-> ~allDone,
                                              version |-> s.todos[k].version + 1])]]
    [] OTHER -> s

\* dispatch(action): the state becomes what the reducer returns.
Dispatch(w, action) == [w EXCEPT !.todoState = TodoReducer(@, action)]

\* addTodo(text): nothing for a text that is empty once trimmed.
AddTodoOp(w, text) ==
  IF text = "" \/ Trim(text) = "" THEN w
  ELSE Dispatch(w, [type |-> "ADD", text |-> Trim(text)])

UpdateTodoOp(w, id, patch) == Dispatch(w, [type |-> "UPDATE", id |-> id, patch |-> patch])

\* toggleTodo(id): nothing for an absent todo, else updateTodo(id, {done: !t.done})
ToggleTodoOp(w, id) ==
  IF id \notin DOMAIN w.todoState.todos THEN w
  ELSE UpdateTodoOp(w, id, Put(<< >>, "done", ~w.todoState.todos[id].done))

DeleteTodoOp(w, id) == Dispatch(w, [type |-> "DELETE", id |-> id])

ClearAllOp(w) == Dispatch(w, [type |-> "CLEAR"])

ToggleAllOp(w) == Dispatch(w, [type |-> "TOGGLE_ALL"])

\* -------------------------------------------------------------------- hooks
\* useState(initial): returns [get, set, key] for slot idx.
UseStateOp(w, c, initial) ==
  LET idx == w.hookCounter[c]
      key == HookKey(idx)
      w1 == Note([w EXCEPT !.hookCounter[c] = @ + 1], Ev("useState", c, key, idx, ""))
  IN IF key \notin DOMAIN w1.state[c] THEN ProxySet(w1, c, key, initial) ELSE w1

\* The updater a hook setter is given: a literal, or a function of the previous value.
Updaters == {[fn |-> f, arg |-> v] : f \in BOOLEAN, v \in Vals}

ApplyUpdater(u, prev) == IF u.fn THEN (prev + u.arg) % (MaxVal + 1) ELSE u.arg

\* set(updater) of the useState slot idx
SetterOp(w, c, idx, u) ==
  ProxySet(w, c, HookKey(idx), ApplyUpdater(u, w.state[c][HookKey(idx)]))

\* useReducer(reducer, initial): useState(initial), whose setter is wrapped in dispatch.
UseReducerOp(w, c, initial) == UseStateOp(w, c, initial)

\* The actions dispatched, and the reducer given to useReducer: it counts up
\* within Vals and resets, so the order of two actions shows in the result.
Actions == {"inc", "reset", "other"}

reducer(prev, action) ==
  CASE action = "inc" -> (prev + 1) % (MaxVal + 1)
    [] action = "reset" -> 0
    [] OTHER -> prev

\* dispatch(action) of the useReducer slot idx: set(prev => reducer(prev, action))
DispatchOp(w, c, idx, action) ==
  ProxySet(w, c, HookKey(idx), reducer(w.state[c][HookKey(idx)], action))

\* One call in a burst: dispatch(action) of a reducer slot, set(updater) of a state slot.
CallOp(w, c, idx, call) ==
  IF call.dispatch
  THEN DispatchOp(w, c, idx, call.action)
  ELSE SetterOp(w, c, idx, call.updater)

\* What the call computes from the value it reads.
CallResult(call, value) ==
  IF call.dispatch THEN reducer(value, call.action) ELSE ApplyUpdater(call.updater, value)

\* The calls of a burst all computed from the value the slot had before the burst.
RECURSIVE BurstFromCaptured(_, _, _, _)
BurstFromCaptured(w, c, idx, calls) ==
  IF calls = << >> THEN w
  ELSE LET captured == w.state[c][HookKey(idx)]
           call == Head(calls)
           next == CallResult(call, captured)
           w1 == ProxySet(w, c, HookKey(idx), next)
       IN [BurstFromCaptured([w1 EXCEPT !.state[c][HookKey(idx)] = captured], c, idx, Tail(calls))
             EXCEPT !.state[c][HookKey(idx)] =
                      IF Len(calls) = 1 THEN next ELSE @]

\* Calls of one slot's dispatch or setter made one after the other with
\* nothing in between.
RECURSIVE BurstOp(_, _, _, _)
BurstOp(w, c, idx, calls) ==
  IF calls = << >> THEN w
  ELSE BurstOp(CallOp(w, c, idx, Head(calls)), c, idx, Tail(calls))

EmptyMeta == [deps |-> NoDeps, cleanup |-> "none"]

\* The dependency comparison of useEffect (Component.js:191-193).
DepsChanged(prev, deps) ==
  \/ ~prev.present
  \/ ~deps.present
  \/ Len(prev.arr) # Len(deps.arr)
  \/ \E i \in 1 .. Len(deps.arr) : prev.arr[i] # deps.arr[i]

\* if (meta.cleanup && typeof meta.cleanup === "function") { try { meta.cleanup(); } catch {} meta.cleanup = null; }
\* A cleanup is "user", a function of user code, or "unsubscribe", the function that
\* subscribe returned to the component's useContext call.
RunCleanup(w, c, idx) ==
  IF idx \in DOMAIN w.hookMeta[c] /\ w.hookMeta[c][idx].cleanup # "none"
  THEN
    LET w1 == Note(w, Ev("cleanup", c, "", idx, ""))
        w2 == IF w.hookMeta[c][idx].cleanup = "unsubscribe"
              THEN UnsubscribeOp(w1, [scope |-> w.consumer[c].scope, fn |-> ConsumerCb(c)])
              ELSE w1
    IN [w2 EXCEPT !.hookMeta[c][idx].cleanup = "none"]
  ELSE w

\* meta.deps as the comparison reads it: the array stored in the slot, which
\* is the copy made by deps.slice() unless the slot shares the caller's array.
StoredDeps(w, c, idx) ==
  IF idx \in w.sharedDeps[c] THEN DepsOf(w.callerArray) ELSE w.hookMeta[c][idx].deps

\* useEffect(effect, deps); effect is "user" for an effect of user code and
\* "unsubscribe" for the effect () => unsubscribe of useContext.
UseEffectWith(w, c, deps, effect) ==
  LET idx == w.hookCounter[c]
      w1 == Note([w EXCEPT !.hookCounter[c] = @ + 1,
                           !.hookMeta[c] = IF idx \in DOMAIN @ THEN @ ELSE Put(@, idx, EmptyMeta)],
                 Ev("useEffect", c, "", idx, ""))
      prev == StoredDeps(w1, c, idx)
  IN IF DepsChanged(prev, deps)
     THEN
       LET w2 == RunCleanup(w1, c, idx)
           w3 == Note([w2 EXCEPT !.hookMeta[c][idx].deps = deps,
                                 !.sharedDeps[c] = @ \ {idx},
                                 !.effectQueue[c] = Append(@, [effect |-> effect, meta |-> idx])],
                      Ev("enqueue", c, "", idx, ""))
       IN IF ~w3.flushScheduled[c]
          THEN QueueFlush([w3 EXCEPT !.flushScheduled[c] = TRUE], c)
          ELSE w3
     ELSE w1

UseEffectOp(w, c, deps) == UseEffectWith(w, c, deps, "user")

\* useEffect(effect, array) storing the caller's array itself, not a copy of it.
UseEffectSharesArray(w, c) ==
  LET n == UseEffectWith(w, c, DepsOf(w.callerArray), "user")
  IN IF "enqueue" \in Kinds(n.log)
     THEN [n EXCEPT !.sharedDeps[c] = @ \cup {w.hookCounter[c]}]
     ELSE n

\* useEffect(effect, array) with the array object that the caller keeps.
UseEffectOfArray(w, c) == UseEffectWith(w, c, DepsOf(w.callerArray), "user")

\* The walk of useContext: from node upwards, stopping at the document element.
RECURSIVE FindProvider(_, _)
FindProvider(w, node) ==
  IF node = NoElement \/ node = DocumentElement THEN NoElement
  ELSE IF w.providers[node] # GlobalScope THEN node
  ELSE FindProvider(w, w.parentNode[node])

\* useContext(context): the slot is primed with the current value of the scope,
\* the callback is subscribed to it, and the effect () => unsubscribe is registered.
UseContextOp(w, c) ==
  LET providerElement == FindProvider(w, ElementOf(c))
      idx == w.hookCounter[c]
      w1 == UseStateOp(Note(w, Ev("useContext", c, providerElement, idx, "")), c,
                       GetValue(w, providerElement))
      w2 == [SubscribeOp(w1, ConsumerCb(c), providerElement) EXCEPT
               !.consumer[c] = [active |-> TRUE, scope |-> ScopeOf(w1, providerElement),
                                slot |-> idx]]
  IN UseEffectWith(w2, c, DepsOf(<< >>), "unsubscribe")

\* ------------------------------------------------------------------ __flush
\* The node update that writes the first node of a key only.
SyncFirstNode(w, c, key, nodes) ==
  IF Len(nodes) = 0 THEN w
  ELSE Note([w EXCEPT !.nodeText[nodes[1]] = TextFor(w, c, key)],
            Ev("text", c, key, nodes[1], TextFor(w, c, key)))

\* nodes.forEach(n => { try { n.textContent = val; } catch {} })
RECURSIVE SyncNodes(_, _, _, _)
SyncNodes(w, c, key, nodes) ==
  IF Len(nodes) = 0 THEN w
  ELSE SyncNodes(
         Note([w EXCEPT !.nodeText[nodes[1]] = TextFor(w, c, key)],
              Ev("text", c, key, nodes[1], TextFor(w, c, key))),
         c, key, Tail(nodes))

\* this.__pendingKeys.forEach(key => ...): keys without bound nodes are skipped.
RECURSIVE SyncKeys(_, _, _)
SyncKeys(w, c, keys) ==
  IF Len(keys) = 0 THEN w
  ELSE SyncKeys(
         IF keys[1] \in DOMAIN w.boundElements[c]
         THEN SyncNodes(w, c, keys[1], w.boundElements[c][keys[1]])
         ELSE w,
         c, Tail(keys))

\* What an update callback (props.onUpdate or an override) may do when called.
UpdateOutcomes ==
  {[kind |-> "return", key |-> "", val |-> 0], [kind |-> "throw", key |-> "", val |-> 0]}
    \cup {[kind |-> "write", key |-> k, val |-> v] : k \in UserKeys, v \in Vals}

\* try { this.onUpdate(); } catch (e) { console.error(e); }
OnUpdate(w, c, upd) ==
  LET w1 == Note(w, Ev("onUpdate", c, "", 0, ""))
  IN CASE upd.kind = "write" -> ProxySet(w1, c, upd.key, upd.val)
       [] upd.kind = "throw" -> Note(w1, Ev("console.error", c, "", 0, ""))
       [] OTHER -> w1

\* What an effect body may do when run: return a cleanup function, return
\* nothing, or throw.
EffectOutcomes == {"cleanup", "void", "throw"}

\* An effect body may also work on its component before it returns nothing:
\* write a new value to a user key, or register an effect with useEffect.
BusyOutcomes == EffectOutcomes \cup {"write", "register"}

\* The value an effect body writes: one that differs from the stored one.
NextVal(value) == (value + 1) % (MaxVal + 1)

\* The drain without the try/catch around each effect: a throwing effect ends it.
RECURSIVE RunEffectsNoCatch(_, _, _, _)
RunEffectsNoCatch(w, c, effects, outs) ==
  IF Len(effects) = 0 THEN w
  ELSE
    LET eff == effects[1]
        w1 == Note(w, Ev("effect", c, "", eff.meta, ""))
    IN CASE outs[1] = "throw" -> [w1 EXCEPT !.thrown = TRUE]
         [] outs[1] = "cleanup" ->
              RunEffectsNoCatch(
                Note([w1 EXCEPT !.hookMeta[c][eff.meta].cleanup = "user"],
                     Ev("install", c, "", eff.meta, "")),
                c, Tail(effects), Tail(outs))
         [] OTHER -> RunEffectsNoCatch(w1, c, Tail(effects), Tail(outs))

\* for (const eff of effects) { try { const cleanup = eff.effect(); ... } catch ... }
RECURSIVE RunEffects(_, _, _, _)
RunEffects(w, c, effects, outs) ==
  IF Len(effects) = 0 THEN w
  ELSE
    LET eff == effects[1]
        w1 == Note(w, Ev("effect", c, "", eff.meta, ""))
        w2 == CASE eff.effect = "unsubscribe" ->
                     Note([w1 EXCEPT !.hookMeta[c][eff.meta].cleanup = "unsubscribe"],
                          Ev("install", c, "", eff.meta, ""))
                [] outs[1] = "cleanup" ->
                     Note([w1 EXCEPT !.hookMeta[c][eff.meta].cleanup = "user"],
                          Ev("install", c, "", eff.meta, ""))
                [] outs[1] = "throw" -> Note(w1, Ev("console.error", c, "", eff.meta, ""))
                [] outs[1] = "write" -> ProxySet(w1, c, "count", NextVal(w1.state[c]["count"]))
                [] outs[1] = "register" -> UseEffectOp(w1, c, NoDeps)
                [] OTHER -> w1
    IN RunEffects(w2, c, Tail(effects), Tail(outs))

\* __flush without this.__pendingKeys.clear()
FlushOpKeepsPending(w, c, upd, outs) ==
  LET w1 == SyncKeys(Note(w, Ev("flush", c, "", 0, "")), c, w.pendingKeys[c])
      w2 == [w1 EXCEPT !.flushScheduled[c] = FALSE]
      w3 == OnUpdate(w2, c, upd)
      effects == w3.effectQueue[c]
      w4 == [w3 EXCEPT !.effectQueue[c] = << >>]
  IN RunEffects(w4, c, effects, outs)

\* __flush calling onUpdate before it updates the bound nodes
FlushOpUpdateFirst(w, c, upd, outs) ==
  LET w0 == OnUpdate(Note(w, Ev("flush", c, "", 0, "")), c, upd)
      w1 == SyncKeys(w0, c, w.pendingKeys[c])
      w2 == [w1 EXCEPT !.pendingKeys[c] = << >>, !.flushScheduled[c] = FALSE]
      effects == w2.effectQueue[c]
      w4 == [w2 EXCEPT !.effectQueue[c] = << >>]
  IN RunEffects(w4, c, effects, outs)

\* __flush clearing the flag after the drain instead of before the callbacks
FlushOpClearsFlagLast(w, c, upd, outs) ==
  LET w1 == SyncKeys(Note(w, Ev("flush", c, "", 0, "")), c, w.pendingKeys[c])
      w2 == [w1 EXCEPT !.pendingKeys[c] = << >>]
      w3 == OnUpdate(w2, c, upd)
      effects == w3.effectQueue[c]
      w4 == [w3 EXCEPT !.effectQueue[c] = << >>]
  IN [RunEffects(w4, c, effects, outs) EXCEPT !.flushScheduled[c] = FALSE]

FlushOp(w, c, upd, outs) ==
  LET w1 == SyncKeys(Note(w, Ev("flush", c, "", 0, "")), c, w.pendingKeys[c])
      w2 == [w1 EXCEPT !.pendingKeys[c] = << >>, !.flushScheduled[c] = FALSE]
      w3 == OnUpdate(w2, c, upd)
      effects == w3.effectQueue[c]
      w4 == [w3 EXCEPT !.effectQueue[c] = << >>]
  IN RunEffects(w4, c, effects, outs)

\* ------------------------------------------------------------ mount, remove
\* mount(target): el.appendChild(this.element); this.__isMounted = true; this.onMount()
MountOp(w, c, target, throws) ==
  LET w1 == Note([w EXCEPT !.parentNode[ElementOf(c)] = target,
                           !.isMounted[c] = TRUE,
                           !.removed[c] = FALSE],
                 Ev("onMount", c, "", 0, ""))
  IN IF throws THEN [w1 EXCEPT !.thrown = TRUE] ELSE w1

\* for (const meta of this.__hookMeta) ...: the slots in index order, holes included.
RECURSIVE CleanupFrom(_, _, _)
CleanupFrom(w, c, idx) ==
  IF \A i \in DOMAIN w.hookMeta[c] : i < idx THEN w
  ELSE CleanupFrom(RunCleanup(w, c, idx), c, idx + 1)

\* remove(); unmountThrows is the set of components whose unmount callback throws.
RECURSIVE RemoveOp(_, _, _)
RECURSIVE RemoveChildren(_, _, _)
RemoveChildren(w, kids, unmountThrows) ==
  IF Len(kids) = 0 \/ w.thrown THEN w
  ELSE RemoveChildren(RemoveOp(w, kids[1], unmountThrows), Tail(kids), unmountThrows)

RemoveOp(w, c, unmountThrows) ==
  LET w1 == Note(w, Ev("onUnmount", c, "", 0, ""))
  IN IF c \in unmountThrows THEN [w1 EXCEPT !.thrown = TRUE]
     ELSE
       LET w2 == CleanupFrom(w1, c, 0)
           w3 == RemoveChildren(Note(w2, Ev("removeChildren", c, "", 0, "")),
                                w2.childrenComponents[c], unmountThrows)
       IN IF w3.thrown THEN w3
          ELSE
            LET w4 == Note([w3 EXCEPT !.childrenComponents[c] = << >>,
                                      !.eventListeners[c] = 0],
                           Ev("removeListeners", c, "", 0, ""))
                el == ElementOf(c)
                w5 == IF w4.parentNode[el] # NoElement
                      THEN Note([w4 EXCEPT !.parentNode[el] = NoElement],
                                Ev("detach", c, "", 0, ""))
                      ELSE w4
            IN [w5 EXCEPT !.isMounted[c] = FALSE, !.removed[c] = TRUE,
                          !.pendingAtRemove[c] = w5.flushScheduled[c]]

\* ------------------------------------------------------------------- Router
\* if (this.currentComponent) this.currentComponent.remove(); const comp = factory();
\* comp.mount(this.mountPoint); this.currentComponent = comp;
SwapComponent(w, path, unmountThrows, mountThrows) ==
  LET w1 == IF w.currentComponent # NoComponent
            THEN RemoveOp(w, w.currentComponent, unmountThrows)
            ELSE w
  IN IF w1.thrown THEN w1
     ELSE
       LET w2 == MountOp(w1, Factory(path), Root, mountThrows)
       IN IF w2.thrown THEN w2 ELSE [w2 EXCEPT !.currentComponent = Factory(path)]

\* history.replaceState(state, "", path) / history.pushState(state, "", path)
WriteHistory(w, path, mode) ==
  Note([w EXCEPT !.history = IF mode = "replace"
                             THEN [@ EXCEPT ![Len(@)] = path]
                             ELSE Append(@, path)],
       Ev(mode, "", path, 0, ""))

\* #navigate removing the current component before it looks the path up
NavigateOpRemovesFirst(w, path, mode, unmountThrows, mountThrows) ==
  LET w1 == IF w.currentComponent # NoComponent
            THEN RemoveOp(w, w.currentComponent, unmountThrows)
            ELSE w
  IN IF path \notin w1.routes THEN [w1 EXCEPT !.thrown = TRUE]
     ELSE WriteHistory(SwapComponent(w1, path, unmountThrows, mountThrows), path, mode)

\* #navigate(path, mode), called by push and replace
NavigateOp(w, path, mode, unmountThrows, mountThrows) ==
  IF path \notin w.routes THEN [w EXCEPT !.thrown = TRUE]
  ELSE
    LET w1 == SwapComponent(w, path, unmountThrows, mountThrows)
    IN IF w1.thrown THEN w1 ELSE WriteHistory(w1, path, mode)

\* _onPop(e) for an event whose path is path
OnPopOp(w, path, unmountThrows, mountThrows) ==
  IF path \notin w.routes THEN w
  ELSE SwapComponent(w, path, unmountThrows, mountThrows)

\* ------------------------------------------------------ Context.set
\* What a subscribed callback may do when it is notified: return, throw,
\* unsubscribe itself, unsubscribe itself and subscribe again (the first time
\* it is called in a pass), unsubscribe the other callback, or subscribe the
\* other callback to the scope.
CallbackActs == {"return", "throw", "unsubSelf", "resubOnce", "unsubOther", "subOther"}

OtherCallback(fn) == CHOOSE x \in Callbacks : x # fn

\* The Set after a callback deleted fn from it during forEach, and how many
\* entries before the iterator's place remain.
DeleteDuring(subs, cursor, fn) ==
  LET at == {i \in 1 .. Len(subs) : subs[i] = fn}
  IN [subs |-> SetDelete(subs, fn),
      cursor |-> IF \E i \in at : i <= cursor THEN cursor - 1 ELSE cursor]

\* One callback's act on the Set under iteration; cursor entries were visited.
ActOn(subs, cursor, fn, act, first) ==
  CASE act = "unsubSelf" -> DeleteDuring(subs, cursor, fn)
    [] act = "resubOnce" /\ first ->
         LET d == DeleteDuring(subs, cursor, fn)
         IN [subs |-> SetAdd(d.subs, fn), cursor |-> d.cursor]
    [] act = "unsubOther" -> DeleteDuring(subs, cursor, OtherCallback(fn))
    [] act = "subOther" -> [subs |-> SetAdd(subs, OtherCallback(fn)), cursor |-> cursor]
    [] OTHER -> [subs |-> subs, cursor |-> cursor]

\* The callback of useContext: (nextValue) => { setVal(nextValue); }, writing
\* the slot directly instead of through the setter.
ConsumerPushBypassesProxy(w, fn, value) ==
  [w EXCEPT !.state[ConsumerOf(fn)][HookKey(w.consumer[ConsumerOf(fn)].slot)] = value]

\* The callback of useContext: (nextValue) => { setVal(nextValue); }
ConsumerPush(w, fn, value) ==
  SetterOp(w, ConsumerOf(fn), w.consumer[ConsumerOf(fn)].slot, [fn |-> FALSE, arg |-> value])

\* What the callback fn does when it is called: a user callback as acts says.
ActOf(acts, fn) == IF fn \in Consumers THEN "push" ELSE acts[fn]

Called(w, scope, fn, acts) ==
  LET w1 == Note(w, Ev("notify", fn, "", scope, ToText(ValueOf(w, scope))))
  IN IF ActOf(acts, fn) = "push" THEN ConsumerPush(w1, fn, ValueOf(w, scope)) ELSE w1

\* The pass without the try/catch around the call: a throwing callback ends it.
RECURSIVE NotifyFromNoCatch(_, _, _, _, _)
NotifyFromNoCatch(w, scope, cursor, seen, acts) ==
  IF cursor >= Len(SubsOf(w, scope)) THEN w
  ELSE
    LET fn == SubsOf(w, scope)[cursor + 1]
        w1 == Called(w, scope, fn, acts)
        r == ActOn(SubsOf(w1, scope), cursor + 1, fn, ActOf(acts, fn), fn \notin seen)
    IN IF ActOf(acts, fn) = "throw" THEN [w1 EXCEPT !.thrown = TRUE]
       ELSE NotifyFromNoCatch(WithSubs(w1, scope, r.subs), scope, r.cursor,
                              seen \cup {fn}, acts)

\* subs.forEach(s => { try { s(value); } catch {} }) on the live Set: entries
\* added during the iteration are visited, entries deleted before their turn
\* are not, an entry deleted and added again is visited again.
RECURSIVE NotifyFrom(_, _, _, _, _)
NotifyFrom(w, scope, cursor, seen, acts) ==
  IF cursor >= Len(SubsOf(w, scope)) THEN w
  ELSE
    LET fn == SubsOf(w, scope)[cursor + 1]
        w1 == Called(w, scope, fn, acts)
        r == ActOn(SubsOf(w1, scope), cursor + 1, fn, ActOf(acts, fn), fn \notin seen)
    IN NotifyFrom(WithSubs(w1, scope, r.subs), scope, r.cursor, seen \cup {fn}, acts)

\* set(valueOrUpdater, { providerElement })
CtxSetOp(w, u, el, acts) ==
  LET scope == ScopeOf(w, el)
      value == ApplyUpdater(u, ValueOf(w, scope))
      w1 == IF scope = GlobalScope THEN [w EXCEPT !.defaultValue = value]
            ELSE [w EXCEPT !.entries[scope].value = value]
  IN NotifyFrom(w1, scope, 0, {}, acts)

\* ------------------------------------------------------------ initial state
\* After construction: both components were given initialState = {count: 0} and
\* one event handler; P holds K as its child, so K's element sits in P's; the
\* root that P is mounted on is a child of the document element.
Init ==
  /\ state = [c \in Comps |-> [k \in UserKeys |-> 0]]
  /\ pendingKeys = [c \in Comps |-> << >>]
  /\ flushScheduled = [c \in Comps |-> FALSE]
  /\ isMounted = [c \in Comps |-> FALSE]
  /\ boundElements = [c \in Comps |-> << >>]
  /\ nodeText = << >>
  /\ hookCounter = [c \in Comps |-> 0]
  /\ hookMeta = [c \in Comps |-> << >>]
  /\ effectQueue = [c \in Comps |-> << >>]
  /\ childrenComponents = [c \in Comps |-> IF c = "P" THEN << "K" >> ELSE << >>]
  /\ eventListeners = [c \in Comps |-> 1]
  /\ parentNode = [e \in Elements |->
                     CASE e = "eK" -> "eP" [] e = Root -> DocumentElement [] OTHER -> NoElement]
  /\ microtasks = << >>
  /\ defaultValue = 0
  /\ entries = << >>
  /\ providers = [e \in Elements |-> 0]
  /\ globalSubs = << >>
  /\ consumer = [c \in Comps |-> NoConsumer]
  /\ routes = {}
  /\ currentComponent = NoComponent
  /\ history = << "/" >>
  /\ callerArray = << >>
  /\ sharedDeps = [c \in Comps |-> {}]
  /\ todoState = initialState
  /\ dirty = [c \in Comps |-> {}]
  /\ removed = [c \in Comps |-> FALSE]
  /\ pendingAtRemove = [c \in Comps |-> FALSE]

\* ------------------------------------------------------------------ actions
\* The keys a caller writes: the user's keys and the hook keys already seeded.
KeysOf(c) == UserKeys \cup ({HookKey(i) : i \in 0 .. hookCounter[c] - 1} \cap DOMAIN state[c])

\* comp.state[key] = value
WriteW(c, key, value) == ProxySet(World, c, key, value)

Write(c) ==
  \E key \in UserKeys, value \in Vals : Commit(WriteW(c, key, value), {})

\* comp.setState(partial) with one or two entries
Partials(c) ==
  {<< <<k, v>> >> : k \in KeysOf(c), v \in Vals}
    \cup {p \in {<< <<k1, v1>>, <<k2, v2>> >> :
                    k1 \in KeysOf(c), k2 \in KeysOf(c), v1 \in Vals, v2 \in Vals} :
            p[1][1] # p[2][1]}

SetStateW(c, partial) == SetStateOp(World, c, partial)

SetState(c) ==
  \E partial \in Partials(c) : Commit(SetStateW(c, partial), {})

\* comp.bindText(key, node) with a text node created for the purpose
BindTextW(c, key) == BindTextOp(World, c, key, Len(nodeText) + 1)

BindText(c) ==
  /\ Len(nodeText) < MaxNodes
  /\ \E key \in KeysOf(c) : Commit(BindTextW(c, key), {})

\* The next hook call of c's hook-bearing code.
NextHook(c) == Program[(hookCounter[c] % ProgLen) + 1]

UseStateW(c, initial) == UseStateOp(World, c, initial)

CallUseState(c, limit) ==
  /\ hookCounter[c] < limit
  /\ NextHook(c) = "useState"
  /\ \E initial \in Vals : Commit(UseStateW(c, initial), {})

UseEffectW(c, deps) == UseEffectOp(World, c, deps)

CallUseEffect(c, limit, depsArgs) ==
  /\ hookCounter[c] < limit
  /\ NextHook(c) = "useEffect"
  /\ \E deps \in depsArgs : Commit(UseEffectW(c, deps), {})

\* The slots of c for which a useState call returned a setter.
SetterSlots(c) == {idx \in 0 .. hookCounter[c] - 1 : Program[(idx % ProgLen) + 1] = "useState"}

SetterW(c, idx, u) == SetterOp(World, c, idx, u)

CallSetter(c) ==
  \E idx \in SetterSlots(c), u \in Updaters : Commit(SetterW(c, idx, u), {})

\* The host runs the oldest queued microtask: () => this.__flush()
Flushable == Len(microtasks) > 0

FlushOuts(c) == [1 .. Len(effectQueue[c]) -> EffectOutcomes]

FlushW(upd, outs) ==
  FlushOp([World EXCEPT !.microtasks = Tail(@)], Head(microtasks), upd, outs)

Flush ==
  /\ Flushable
  /\ \E upd \in UpdateOutcomes, outs \in FlushOuts(Head(microtasks)) :
       Commit(FlushW(upd, outs), {Head(microtasks)})

\* The flush of a component whose update callback and effect bodies only return.
FlushQuiet ==
  /\ Flushable
  /\ Commit(FlushW([kind |-> "return", key |-> "", val |-> 0],
                   [j \in 1 .. Len(effectQueue[Head(microtasks)]) |-> "void"]),
            {Head(microtasks)})

MountW(c, throws) == MountOp(World, c, Root, throws)

Mount(c) ==
  \E throws \in BOOLEAN : Commit(MountW(c, throws), {})

RemoveW(c, unmountThrows) == RemoveOp(World, c, unmountThrows)

Remove(c) ==
  \E unmountThrows \in SUBSET Comps : Commit(RemoveW(c, unmountThrows), {})

\* remove() of a component whose unmount callbacks return.
RemoveReturning(c) == Commit(RemoveW(c, {}), {})

\* The whole component: P with hooks and a bound node, and its child K.
Next ==
  \/ \E c \in Comps : Write(c)
  \/ \E c \in HookUsers : SetState(c)
  \/ \E c \in HookUsers : BindText(c)
  \/ \E c \in HookUsers : CallUseState(c, CoreHooks)
  \/ \E c \in HookUsers : CallUseEffect(c, CoreHooks, CoreDeps)
  \/ \E c \in HookUsers : CallSetter(c)
  \/ Flush
  \/ \E c \in HookUsers : Mount(c)
  \/ \E c \in Comps : Remove(c)

Spec == Init /\ [][Next]_vars

\* The hooks alone: P's hook-bearing code invoked repeatedly, with every
\* dependency argument, its setters and its flushes.
NextHooks ==
  \/ \E c \in HookUsers : CallUseState(c, MaxHooks)
  \/ \E c \in HookUsers : CallUseEffect(c, MaxHooks, DepsArgs)
  \/ \E c \in HookUsers : CallSetter(c)
  \/ Flush
  \/ \E c \in HookUsers : Remove(c)

SpecHooks == Init /\ [][NextHooks]_vars

\* The flush whose effect bodies work on the component: they write, and they
\* register effects while slots are left.
MaxSlots == CoreHooks + 1

BusyOuts(c) ==
  {outs \in [1 .. Len(effectQueue[c]) -> BusyOutcomes] :
     hookCounter[c] + Cardinality({j \in DOMAIN outs : outs[j] = "register"}) <= MaxSlots}

FlushBusy ==
  /\ Flushable
  /\ \E upd \in UpdateOutcomes, outs \in BusyOuts(Head(microtasks)) :
       Commit(FlushW(upd, outs), {Head(microtasks)})

\* P with a bound node, its hooks, and flushes whose callbacks work on P.
NextBusy ==
  \/ \E c \in HookUsers : Write(c)
  \/ \E c \in HookUsers : BindText(c)
  \/ \E c \in HookUsers : CallUseState(c, CoreHooks)
  \/ \E c \in HookUsers : CallUseEffect(c, CoreHooks, CoreDeps)
  \/ FlushBusy

SpecBusy == Init /\ [][NextBusy]_vars

\* The dependency comparison: P's hook code is two useEffect calls, given no
\* dependencies, a literal array or the array the caller keeps and changes
\* between the calls; the caller sets __hookCounter back to 0 before it runs
\* the hook code again, which brings a call to a slot that holds dependencies.
UseEffectArgW(c, deps) == UseEffectOp(World, c, deps)

UseEffectArrayW(c) == UseEffectOfArray(World, c)

RegisterEffect(c) ==
  /\ hookCounter[c] < CoreHooks
  /\ Len(effectQueue[c]) < MaxQueue
  /\ \/ \E deps \in DepsArgs : Commit(UseEffectArgW(c, deps), {})
     \/ Commit(UseEffectArrayW(c), {})

ChangeArray ==
  \E arr \in Arrays \ {callerArray} : Commit([World EXCEPT !.callerArray = arr], {})

Rewind(c) ==
  /\ hookCounter[c] > 0
  /\ Commit([World EXCEPT !.hookCounter[c] = 0], {})

NextDeps ==
  \/ \E c \in HookUsers : RegisterEffect(c)
  \/ ChangeArray
  \/ \E c \in HookUsers : Rewind(c)
  \/ FlushQuiet

SpecDeps == Init /\ [][NextDeps]_vars

\* The reducer: P's hook code is useReducer, then useState; the slots get
\* bursts of dispatches and of setter calls and P gets flushes.
ReducerProgram == <<"useReducer", "useState">>

UseReducerW(c, initial) == UseReducerOp(World, c, initial)

CallUseReducer(c) ==
  /\ hookCounter[c] < CoreHooks
  /\ ReducerProgram[hookCounter[c] + 1] = "useReducer"
  /\ \E initial \in Vals : Commit(UseReducerW(c, initial), {})

CallUseStateAfter(c) ==
  /\ hookCounter[c] < CoreHooks
  /\ ReducerProgram[hookCounter[c] + 1] = "useState"
  /\ \E initial \in Vals : Commit(UseStateW(c, initial), {})

\* The bursts that slot idx of the hook code can be given.
Bursts(idx) ==
  LET calls == IF ReducerProgram[idx + 1] = "useReducer"
               THEN {[dispatch |-> TRUE, action |-> a] : a \in Actions}
               ELSE {[dispatch |-> FALSE, updater |-> u] : u \in Updaters}
  IN UNION {[1 .. n -> calls] : n \in 1 .. MaxBurst}

BurstW(c, idx, calls) == BurstOp(World, c, idx, calls)

Burst(c) ==
  \E idx \in 0 .. hookCounter[c] - 1 :
    \E calls \in Bursts(idx) : Commit(BurstW(c, idx, calls), {})

NextReducer ==
  \/ \E c \in HookUsers : CallUseReducer(c)
  \/ \E c \in HookUsers : CallUseStateAfter(c)
  \/ \E c \in HookUsers : Burst(c)
  \/ \E c \in HookUsers : Write(c)
  \/ \E c \in HookUsers : BindText(c)
  \/ FlushQuiet

SpecReducer == Init /\ [][NextReducer]_vars

\* The bound nodes: P with up to MaxBound text nodes bound to a key its state
\* starts with and to a key it gets later, with writes, flushes whose update
\* callback may write, and remove().
BoundKeys == UserKeys \cup {"title"}

WriteBound(c) ==
  \E key \in BoundKeys, value \in Vals : Commit(WriteW(c, key, value), {})

BindMore(c) ==
  /\ Len(nodeText) < MaxBound
  /\ \E key \in BoundKeys : Commit(BindTextW(c, key), {})

NextBind ==
  \/ \E c \in HookUsers : WriteBound(c)
  \/ \E c \in HookUsers : BindMore(c)
  \/ Flush
  \/ \E c \in HookUsers : RemoveReturning(c)

SpecBind == Init /\ [][NextBind]_vars

\* The todo store: its API called with every text, id and patch, while ids
\* and versions stay within the bounds.
Versions == {todoState.todos[k].version : k \in DOMAIN todoState.todos}

AddTodoW(text) == AddTodoOp(World, text)

AddTodo ==
  /\ todoState.nextId <= MaxId
  /\ \E text \in Inputs : Commit(AddTodoW(text), {})

UpdateTodoW(id, patch) == UpdateTodoOp(World, id, patch)

UpdateTodo ==
  \E id \in Ids, patch \in Patches :
    /\ id \in DOMAIN todoState.todos => todoState.todos[id].version < MaxVersion
    /\ Commit(UpdateTodoW(id, patch), {})

ToggleTodo ==
  \E id \in Ids :
    /\ id \in DOMAIN todoState.todos => todoState.todos[id].version < MaxVersion
    /\ Commit(ToggleTodoOp(World, id), {})

DeleteTodo == \E id \in Ids : Commit(DeleteTodoOp(World, id), {})

ClearAll == Commit(ClearAllOp(World), {})

ToggleAll ==
  /\ \A v \in Versions : v < MaxVersion
  /\ Commit(ToggleAllOp(World), {})

NextTodo ==
  \/ AddTodo
  \/ UpdateTodo
  \/ ToggleTodo
  \/ DeleteTodo
  \/ ClearAll
  \/ ToggleAll

SpecTodo == Init /\ [][NextTodo]_vars

\* The context alone: providers on two elements, two user callbacks.
RegisterProviderOn(els) ==
  /\ Len(entries) < MaxEntries
  /\ \E el \in els, value \in Vals : Commit(RegisterProviderOp(World, el, value), {})

UnregisterProviderOn(els) ==
  \E el \in els :
    /\ providers[el] # GlobalScope
    /\ Commit(UnregisterProviderOp(World, el), {})

RegisterProvider == RegisterProviderOn(ProviderEls)

UnregisterProvider == UnregisterProviderOn(ProviderEls)

Subscribe ==
  \E fn \in Callbacks, el \in ProviderEls \cup {NoElement} :
    Commit(SubscribeOp(World, fn, el), {})

\* The unsubscribe functions that still have something to delete: subscribe
\* returned one for every callback that is in a scope's Set.
Issued ==
  {u \in [scope : 0 .. Len(entries), fn : Callbacks] : Contains(SubsOf(World, u.scope), u.fn)}

Unsubscribe ==
  \E u \in Issued : Commit(UnsubscribeOp(World, u), {})

CallbackBehaviours == [Callbacks -> CallbackActs]

CtxSetW(u, el, acts) == CtxSetOp(World, u, el, acts)

CtxSetOn(els, behaviours) ==
  \E u \in Updaters, el \in els, acts \in behaviours : Commit(CtxSetW(u, el, acts), {})

CtxSet == CtxSetOn(ProviderEls \cup {NoElement}, CallbackBehaviours)

NextCtx ==
  \/ RegisterProvider
  \/ UnregisterProvider
  \/ Subscribe
  \/ Unsubscribe
  \/ CtxSet

SpecCtx == Init /\ [][NextCtx]_vars

\* The consumers of a context: P and its child K each call useContext once,
\* before or after P is mounted on the root; providers are registered on the
\* document element, the root and P's element.
ConsumerEls == {DocumentElement, Root, "eP"}

Returning == [fn \in Callbacks |-> "return"]

UseContextW(c) == UseContextOp(World, c)

CallUseContext(c) ==
  /\ hookCounter[c] = 0
  /\ Commit(UseContextW(c), {})

\* comp.bindText(key, node) with the key that useState returned to useContext
BindSlot(c) ==
  /\ consumer[c].active
  /\ Len(nodeText) < MaxNodes
  /\ Commit(BindTextW(c, HookKey(consumer[c].slot)), {})

NextUse ==
  \/ RegisterProviderOn(ConsumerEls)
  \/ UnregisterProviderOn(ConsumerEls)
  \/ \E c \in Comps : CallUseContext(c)
  \/ CtxSetOn(ConsumerEls \cup {NoElement}, {Returning})
  \/ FlushQuiet
  \/ \E c \in HookUsers : Mount(c)
  \/ \E c \in Comps : RemoveReturning(c)

SpecUse == Init /\ [][NextUse]_vars

\* The pushes of a context to its consumers: P and K call useContext and bind
\* the slot to a node, P's element is registered as a provider before or after,
\* and values are set on that provider and on the global scope.
PushEls == {"eP"}

NextPush ==
  \/ RegisterProviderOn(PushEls)
  \/ \E c \in Comps : CallUseContext(c)
  \/ \E c \in Comps : BindSlot(c)
  \/ CtxSetOn(PushEls \cup {NoElement}, {Returning})
  \/ FlushQuiet

SpecPush == Init /\ [][NextPush]_vars

\* The router: routes are registered and removed, paths are pushed and
\* replaced, and the host delivers popstate events for any path.
RouterRegister ==
  \E path \in RoutablePaths : Commit([World EXCEPT !.routes = @ \cup {path}], {})

RouterRemove ==
  \E path \in routes : Commit([World EXCEPT !.routes = @ \ {path}], {})

NavigateW(path, mode, unmountThrows, mountThrows) ==
  NavigateOp(World, path, mode, unmountThrows, mountThrows)

Push ==
  /\ Len(history) < MaxHistory
  /\ \E path \in Paths, unmountThrows \in SUBSET Comps, mountThrows \in BOOLEAN :
       Commit(NavigateW(path, "push", unmountThrows, mountThrows), {})

Replace ==
  \E path \in Paths, unmountThrows \in SUBSET Comps, mountThrows \in BOOLEAN :
    Commit(NavigateW(path, "replace", unmountThrows, mountThrows), {})

OnPopW(path, unmountThrows, mountThrows) == OnPopOp(World, path, unmountThrows, mountThrows)

PopState ==
  \E path \in Paths, unmountThrows \in SUBSET Comps, mountThrows \in BOOLEAN :
    Commit(OnPopW(path, unmountThrows, mountThrows), {})

NextRouter ==
  \/ RouterRegister
  \/ RouterRemove
  \/ Push
  \/ Replace
  \/ PopState

SpecRouter == Init /\ [][NextRouter]_vars

\* ------------------------------------------------------------------ claims
PendingSet(c) == {pendingKeys[c][i] : i \in 1 .. Len(pendingKeys[c])}

\* The places of the entries of one kind in a trace.
Places(trace, kind) == {i \in 1 .. Len(trace) : trace[i].ev = kind}

\* What an operation leaves alone of the scheduling state of component o.
SameScheduling(w, o) ==
  /\ w.pendingKeys[o] = pendingKeys[o]
  /\ w.flushScheduled[o] = flushScheduled[o]
  /\ Count(w.microtasks, o) = Count(microtasks, o)

\* C1: a component has at most one flush queued, and one exactly while its
\* flag is set; every key changed since its last flush is pending and, like a
\* queued effect, has that flush queued; the flush, when it runs, writes the
\* current value of every changed key into every node bound to it and runs
\* every queued effect; a write to one component leaves the other component's
\* queue entry, pending keys and flag alone and queues its own flush.
C1_OneFlushPerBurst ==
  /\ \A c \in Comps :
       /\ Count(microtasks, c) <= 1
       /\ flushScheduled[c] <=> Count(microtasks, c) = 1
       /\ dirty[c] \subseteq PendingSet(c)
       /\ (dirty[c] # {} \/ Len(effectQueue[c]) > 0) => flushScheduled[c]
  /\ Flushable =>
       \A upd \in UpdateOutcomes, outs \in FlushOuts(Head(microtasks)) :
         LET c == Head(microtasks)
             w == FlushW(upd, outs)
         IN /\ Cardinality(Places(w.log, "flush")) = 1
            /\ \A k \in dirty[c] \cap DOMAIN boundElements[c] :
                 \A i \in 1 .. Len(boundElements[c][k]) :
                   LET node == boundElements[c][k][i]
                   IN /\ Contains(w.log, Ev("text", c, k, node, TextFor(World, c, k)))
                      /\ w.nodeText[node] = TextFor(World, c, k)
            /\ \A j \in 1 .. Len(effectQueue[c]) :
                 Contains(w.log, Ev("effect", c, "", effectQueue[c][j].meta, ""))
            /\ \A o \in Comps \ {c} : SameScheduling(w, o)
  /\ \A c \in Comps, key \in UserKeys, value \in Vals :
       LET w == WriteW(c, key, value)
       IN /\ \A o \in Comps \ {c} : SameScheduling(w, o)
          /\ state[c][key] # value =>
               /\ Count(w.microtasks, c) = 1
               /\ Contains(w.pendingKeys[c], key)

\* A burst on both components: P has two changed keys and a queued effect,
\* one of the keys with a bound node still showing the old value, and K has a
\* changed key; each has its single flush queued.
C1_Witness ==
  /\ Count(microtasks, "P") = 1
  /\ Count(microtasks, "K") = 1
  /\ Cardinality(dirty["P"]) >= 2
  /\ dirty["K"] # {}
  /\ Len(effectQueue["P"]) > 0
  /\ \E k \in dirty["P"] \cap DOMAIN boundElements["P"] :
       nodeText[boundElements["P"][k][1]] # TextFor(World, "P", k)

\* An operation that changed nothing of the state store or its scheduling.
NothingChanged(w) ==
  /\ w.state = state
  /\ w.pendingKeys = pendingKeys
  /\ w.flushScheduled = flushScheduled
  /\ w.microtasks = microtasks

\* C2: a direct write, a setState entry or a hook setter that gives a key the
\* value it already holds leaves the stored state, the pending keys, the
\* flag and the microtask queue as they were; a setState entry of that kind
\* does not make its key pending.
C2_EqualWriteIsNoop ==
  /\ \A c \in Comps : \A key \in DOMAIN state[c] :
       NothingChanged(WriteW(c, key, state[c][key]))
  /\ \A c \in Comps : \A partial \in Partials(c) :
       LET w == SetStateW(c, partial)
           same == {i \in 1 .. Len(partial) : state[c][partial[i][1]] = partial[i][2]}
       IN /\ \A i \in same :
               /\ Contains(w.pendingKeys[c], partial[i][1])
                    <=> Contains(pendingKeys[c], partial[i][1])
               /\ w.state[c][partial[i][1]] = state[c][partial[i][1]]
          /\ same = 1 .. Len(partial) => NothingChanged(w)
  /\ \A c \in Comps : \A idx \in SetterSlots(c), u \in Updaters :
       ApplyUpdater(u, state[c][HookKey(idx)]) = state[c][HookKey(idx)]
         => NothingChanged(SetterW(c, idx, u))

\* P after a flush, with nothing pending and no flush queued, holding values
\* other than the initial ones in a user key and in a hook key: the equal
\* writes to them take the trap's early return.
C2_Witness ==
  /\ ~flushScheduled["P"]
  /\ pendingKeys["P"] = << >>
  /\ state["P"]["count"] = 1
  /\ 0 \in SetterSlots("P")
  /\ state["P"][HookKey(0)] = 1
  /\ "set" \notin Kinds(WriteW("P", "count", 1).log)
  /\ "set-noop" \in Kinds(SetterW("P", 0, [fn |-> FALSE, arg |-> 1]).log)

\* C3: between operations, a component with a pending key has its
\* flush-scheduled flag set.
C3_PendingImpliesScheduled ==
  \A c \in Comps : Len(pendingKeys[c]) > 0 => flushScheduled[c]

\* A removed component with a pending key, and its parent with two.
C3_Witness ==
  /\ removed["K"]
  /\ Len(pendingKeys["K"]) > 0
  /\ Len(pendingKeys["P"]) = 2

\* The write operations of a component, with every input: their results.
WriteResults(c) ==
  {WriteW(c, key, value) : key \in UserKeys, value \in Vals}
    \cup {SetStateW(c, partial) : partial \in Partials(c)}
    \cup {SetterW(c, idx, u) : idx \in SetterSlots(c), u \in Updaters}

\* C4: a write is in the state at once (a read after it returns the value
\* written), while no write operation touches a bound node, calls the update
\* callback, runs an effect body or installs a cleanup: it only queues the
\* flush.  In a flush every bound-node write comes before the one call of the
\* update callback, and that call before every effect body.
C4_ImmediateStateDeferredConsequences ==
  /\ \A c \in Comps :
       /\ \A key \in UserKeys, value \in Vals : WriteW(c, key, value).state[c][key] = value
       /\ \A partial \in Partials(c) :
            \A i \in 1 .. Len(partial) :
              SetStateW(c, partial).state[c][partial[i][1]] = partial[i][2]
       /\ \A idx \in SetterSlots(c), u \in Updaters :
            SetterW(c, idx, u).state[c][HookKey(idx)]
              = ApplyUpdater(u, state[c][HookKey(idx)])
       /\ \A w \in WriteResults(c) :
            /\ Kinds(w.log) \cap {"flush", "text", "onUpdate", "effect", "install"} = {}
            /\ w.nodeText = nodeText
            /\ w.hookMeta = hookMeta
            /\ w.effectQueue = effectQueue
  /\ Flushable =>
       \A upd \in UpdateOutcomes, outs \in FlushOuts(Head(microtasks)) :
         LET trace == FlushW(upd, outs).log
         IN /\ Cardinality(Places(trace, "onUpdate")) = 1
            /\ \A t \in Places(trace, "text"), u \in Places(trace, "onUpdate") : t < u
            /\ \A u \in Places(trace, "onUpdate"), e \in Places(trace, "effect") : u < e

\* The flush at the head of the queue has a stale bound node to write and a
\* queued effect to run, after writes that are already in the state.
C4_Witness ==
  /\ Flushable
  /\ Head(microtasks) = "P"
  /\ Len(effectQueue["P"]) > 0
  /\ state["P"]["count"] = 1
  /\ "count" \in DOMAIN boundElements["P"]
  /\ nodeText[boundElements["P"]["count"][1]] = "0"
  /\ "count" \in PendingSet("P")

\* C5: a flush that was queued for a component when remove() ran on it does
\* nothing when it runs: it writes no bound node, does not call the update
\* callback, runs no effect body and installs no cleanup.
C5_PendingFlushAfterRemoveIsNoop ==
  (Flushable /\ removed[Head(microtasks)] /\ pendingAtRemove[Head(microtasks)]) =>
    \A upd \in UpdateOutcomes, outs \in FlushOuts(Head(microtasks)) :
      LET w == FlushW(upd, outs)
      IN /\ Kinds(w.log) \cap {"text", "onUpdate", "effect", "install"} = {}
         /\ w.nodeText = nodeText
         /\ w.hookMeta = hookMeta

\* The slots of c that hold a cleanup function.
LiveCleanups(c) == {idx \in DOMAIN hookMeta[c] : hookMeta[c][idx].cleanup # "none"}

\* The places in a trace where the cleanup of slot idx of c is called.
CleanupCalls(trace, c, idx) == {i \in 1 .. Len(trace) : trace[i] = Ev("cleanup", c, "", idx, "")}

\* The places in a trace of the teardown steps of remove() that follow the cleanups.
LaterTeardown(trace, c) ==
  {i \in 1 .. Len(trace) :
     \/ trace[i].ev \in {"removeChildren", "removeListeners", "detach"} /\ trace[i].c = c
     \/ trace[i].ev = "onUnmount" /\ trace[i].c # c}

\* The teardown of one remove(): every live cleanup of c is called once and
\* cleared, no other cleanup of c is called, and each call comes after c's
\* unmount callback and before the children are removed, the listeners are
\* detached and the element is detached.
TeardownInOrder(c, w) ==
  /\ \A idx \in LiveCleanups(c) :
       /\ Cardinality(CleanupCalls(w.log, c, idx)) = 1
       /\ w.hookMeta[c][idx].cleanup = "none"
  /\ \A i \in Places(w.log, "cleanup") :
       w.log[i].c = c => w.log[i].num \in LiveCleanups(c)
  /\ \A i \in Places(w.log, "cleanup") :
       w.log[i].c = c =>
         /\ \E u \in Places(w.log, "onUnmount") : w.log[u].c = c /\ u < i
         /\ \A j \in LaterTeardown(w.log, c) : i < j

\* C6: remove() calls every hook cleanup that is live once and clears it,
\* after the unmount callback and before any child is removed, any listener
\* detached or the element detached; a cleanup that was called is not called
\* again by a later remove() or useEffect.
C6_RemoveRunsLiveCleanupsOnce ==
  /\ \A c \in Comps, unmountThrows \in SUBSET Comps :
       TeardownInOrder(c, RemoveW(c, unmountThrows))
  /\ \A c \in HookUsers, deps \in DepsArgs :
       \A i \in Places(UseEffectW(c, deps).log, "cleanup") :
         UseEffectW(c, deps).log[i].num \in LiveCleanups(c)

\* The same teardown for the calls of remove() whose unmount callback returns.
RemoveTeardownWhenUnmountReturns ==
  \A c \in Comps : \A unmountThrows \in SUBSET (Comps \ {c}) :
    TeardownInOrder(c, RemoveW(c, unmountThrows))

\* The next hook call of c is call number site of the current invocation of
\* c's hook-bearing code.
Site(c) == hookCounter[c] % ProgLen

\* C7: the i-th hook call of every invocation of the hook-bearing code uses
\* slot i: useState the key __hook_state_i, useEffect the record hookMeta[i].
C7_SameSlotsEachInvocation ==
  \A c \in HookUsers :
    hookCounter[c] < MaxHooks =>
      /\ NextHook(c) = "useState" =>
           \A initial \in Vals :
             Contains(UseStateW(c, initial).log, Ev("useState", c, HookKey(Site(c)), Site(c), ""))
      /\ NextHook(c) = "useEffect" =>
           \A deps \in DepsArgs :
             Contains(UseEffectW(c, deps).log, Ev("useEffect", c, "", Site(c), ""))

\* Two dependency arguments are unchanged: both arrays, of the same length,
\* equal at every position.
Unchanged(prev, deps) == prev.present /\ deps.present /\ prev.arr = deps.arr

\* The next hook call of c is a useEffect call that the previous invocation
\* of the hook-bearing code made too; PrevSlot is the slot it used then.
ReRegistration(c) ==
  hookCounter[c] < MaxHooks /\ NextHook(c) = "useEffect" /\ hookCounter[c] >= ProgLen

PrevSlot(c) == hookCounter[c] - ProgLen

\* C8: registering the same effect again with unchanged dependencies does not
\* enqueue it, schedules no flush to run it, and does not call the cleanup its
\* first run returned.
C8_UnchangedDepsSkipEffect ==
  \A c \in HookUsers :
    ReRegistration(c) =>
      \A deps \in DepsArgs :
        Unchanged(hookMeta[c][PrevSlot(c)].deps, deps) =>
          LET w == UseEffectW(c, deps)
          IN /\ Kinds(w.log) \cap {"enqueue", "cleanup", "queueMicrotask"} = {}
             /\ w.effectQueue = effectQueue

\* C9: registering an effect again with changed dependencies calls, inside
\* the useEffect call and before the effect is enqueued, the cleanup that the
\* effect's previous run returned.
C9_ChangedDepsCleanupBeforeEnqueue ==
  \A c \in HookUsers :
    (ReRegistration(c) /\ PrevSlot(c) \in LiveCleanups(c)) =>
      \A deps \in DepsArgs :
        ~Unchanged(hookMeta[c][PrevSlot(c)].deps, deps) =>
          LET trace == UseEffectW(c, deps).log
          IN \E i \in CleanupCalls(trace, c, PrevSlot(c)) :
               \A q \in Places(trace, "enqueue") : i < q

\* The calls of fn in the trace of a notification pass.
Notified(trace, fn) == {i \in Places(trace, "notify") : trace[i].c = fn}

\* A set() call notified exactly the callbacks subscribed to its scope when it
\* was called, each once, with the new value.
NotifiesItsScopeOnce(u, el, acts) ==
  LET scope == ScopeOf(World, el)
      before == SubsOf(World, scope)
      value == ApplyUpdater(u, ValueOf(World, scope))
      trace == CtxSetW(u, el, acts).log
  IN /\ \A fn \in Callbacks :
          Cardinality(Notified(trace, fn)) = IF Contains(before, fn) THEN 1 ELSE 0
     /\ \A i \in Places(trace, "notify") :
          trace[i].num = scope /\ trace[i].txt = ToText(value)

\* C10: set() on a registered provider notifies every callback subscribed under
\* that provider once, with the new value, and no callback that is subscribed
\* only globally or under another provider; set() on the global scope
\* notifies every global subscriber once and no provider's subscriber.
C10_SetNotifiesOnlyItsScope ==
  \A u \in Updaters, el \in ProviderEls \cup {NoElement}, acts \in CallbackBehaviours :
    NotifiesItsScopeOnce(u, el, acts)

\* The same for passes whose callbacks only return or throw.
ScopedNotifyWhenCallbacksReturnOrThrow ==
  \A u \in Updaters, el \in ProviderEls \cup {NoElement},
     acts \in [Callbacks -> {"return", "throw"}] :
    NotifiesItsScopeOnce(u, el, acts)

\* The callbacks that a trace notifies, in order, leaving out fn.
OthersNotified(trace, fn) ==
  SelectSeq(trace, LAMBDA e : e.ev = "notify" /\ e.c # fn)

\* C12: in a pass whose callbacks return, throw or unsubscribe themselves,
\* every callback that was subscribed to the scope when set() was called is
\* notified once and no other, and set() returns normally; a callback that
\* unsubscribed itself is no longer in the scope's Set afterwards, so no later
\* set() notifies it.  Whatever the other callbacks do, a callback that throws
\* or unsubscribes itself leaves their notifications as they are when it returns.
C12_ThrowOrSelfUnsubscribeKeepsPass ==
  \A u \in Updaters, el \in ProviderEls \cup {NoElement} :
    LET scope == ScopeOf(World, el)
        before == SubsOf(World, scope)
    IN /\ \A acts \in [Callbacks -> {"return", "throw", "unsubSelf"}] :
            LET w == CtxSetW(u, el, acts)
            IN /\ ~w.thrown
               /\ \A fn \in Callbacks :
                    /\ Cardinality(Notified(w.log, fn)) = IF Contains(before, fn) THEN 1 ELSE 0
                    /\ acts[fn] = "unsubSelf" /\ Contains(before, fn)
                         => ~Contains(SubsOf(w, scope), fn)
                    /\ ~Contains(before, fn) => ~Contains(SubsOf(w, scope), fn)
       /\ \A acts \in CallbackBehaviours : \A fn \in Callbacks :
            acts[fn] \in {"throw", "unsubSelf"} =>
              OthersNotified(CtxSetW(u, el, acts).log, fn)
                = OthersNotified(CtxSetW(u, el, [acts EXCEPT ![fn] = "return"]).log, fn)

\* A provider with both callbacks subscribed, f first: in the pass where f
\* throws and g unsubscribes itself both are called, and g is gone afterwards.
C12_Witness ==
  \E el \in ProviderEls :
    /\ providers[el] # GlobalScope
    /\ SubsOf(World, providers[el]) = << "f", "g" >>
    /\ LET w == CtxSetW([fn |-> FALSE, arg |-> 1], el, [x \in Callbacks |-> IF x = "f" THEN "throw" ELSE "unsubSelf"])
       IN /\ Cardinality(Places(w.log, "notify")) = 2
          /\ SubsOf(w, providers[el]) = << "f" >>

\* The callbacks a trace notifies, in the order of the calls.
NotifiedInOrder(trace) ==
  LET calls == SelectSeq(trace, LAMBDA e : e.ev = "notify")
  IN [i \in 1 .. Len(calls) |-> calls[i].c]

\* C13: whatever the callbacks do to the scope's subscribers during the pass,
\* set() calls the callbacks that were subscribed when it was called, each
\* once, in their order, and then returns: a callback subscribed during the
\* pass is not called in it, and a callback unsubscribed during the pass
\* before its turn is still called.
C13_PassIteratesSnapshot ==
  \A u \in Updaters, el \in ProviderEls \cup {NoElement}, acts \in CallbackBehaviours :
    NotifiedInOrder(CtxSetW(u, el, acts).log) = SubsOf(World, ScopeOf(World, el))

\* The scopes there are: the global one and every entry ever registered.
Scopes == 0 .. Len(entries)

\* The subscriber Sets of w are those of now, but for the Set of one scope.
OnlyScopeChanged(w, scope) ==
  /\ Len(w.entries) = Len(entries)
  /\ \A o \in Scopes \ {scope} : SubsOf(w, o) = SubsOf(World, o)

\* C19: subscribe(fn, boundary) adds fn to the entry the boundary has at that
\* moment, or to the global Set when the boundary is not a provider or is
\* absent, and to no other Set; the unsubscribe it returned deletes fn from
\* that Set alone, whatever the boundary resolves to later.  registerProvider
\* gives the boundary a fresh entry without subscribers and leaves the entries
\* before it as they were, so a set() on the boundary right after it calls
\* nobody; after unregisterProvider a set() on the boundary calls only global
\* subscribers, so a callback that was subscribed under the former entry only
\* is not called.
C19_SubscriptionScopeFixedAtSubscribe ==
  /\ \A fn \in Callbacks, el \in ProviderEls \cup {NoElement} :
       LET w == SubscribeOp(World, fn, el)
           scope == IF el # NoElement /\ providers[el] # GlobalScope
                    THEN providers[el] ELSE GlobalScope
       IN /\ ~w.thrown
          /\ Contains(SubsOf(w, scope), fn)
          /\ OnlyScopeChanged(w, scope)
          /\ w.providers = providers
          /\ UnsubscribeOp(w, [scope |-> scope, fn |-> fn])
               = WithSubs(World, scope, SetDelete(SubsOf(World, scope), fn))
  /\ \A scope \in Scopes, fn \in Callbacks :
       LET w == UnsubscribeOp(World, [scope |-> scope, fn |-> fn])
       IN /\ OnlyScopeChanged(w, scope)
          /\ SubsOf(w, scope) = SetDelete(SubsOf(World, scope), fn)
  /\ \A el \in ProviderEls, value \in Vals :
       LET w == RegisterProviderOp(World, el, value)
       IN /\ SubsOf(w, w.providers[el]) = << >>
          /\ \A o \in Scopes : SubsOf(w, o) = SubsOf(World, o)
          /\ \A u \in Updaters, acts \in CallbackBehaviours :
               Places(CtxSetOp(w, u, el, acts).log, "notify") = {}
  /\ \A el \in ProviderEls :
       LET w == UnregisterProviderOp(World, el)
       IN /\ \A o \in Scopes : SubsOf(w, o) = SubsOf(World, o)
          /\ \A u \in Updaters, acts \in [Callbacks -> CallbackActs \ {"subOther"}] :
               \A fn \in Callbacks :
                 Notified(CtxSetOp(w, u, el, acts).log, fn) # {} => Contains(globalSubs, fn)

\* The root was registered twice: f is a subscriber of its first entry, which
\* no boundary has any more, and of no other Set; g is a global subscriber;
\* the other boundary is a provider with a subscriber, about to be unregistered.
C19_Witness ==
  /\ Len(entries) = 2
  /\ providers[Root] = 2
  /\ providers["eP"] = GlobalScope
  /\ entries[1].subs = << "f" >>
  /\ entries[2].subs = << >>
  /\ globalSubs = << "g" >>

\* C14: when the unmount callback of a component throws, remove() does not
\* throw and still calls every live cleanup, empties the children and the
\* listeners, detaches the element and clears the mounted flag.
C14_UnmountThrowIsCaught ==
  \A c \in Comps :
    LET w == RemoveW(c, {c})
    IN /\ ~w.thrown
       /\ \A idx \in LiveCleanups(c) : CleanupCalls(w.log, c, idx) # {}
       /\ w.childrenComponents[c] = << >>
       /\ w.eventListeners[c] = 0
       /\ w.parentNode[ElementOf(c)] = NoElement
       /\ ~w.isMounted[c]

\* The effect bodies a trace runs, by slot, in order.
EffectsRun(trace) ==
  LET runs == SelectSeq(trace, LAMBDA e : e.ev = "effect")
  IN [i \in 1 .. Len(runs) |-> runs[i].num]

\* C15: a flush in which the update callback or an effect body throws does
\* not throw: it runs every effect that was queued, in order, installs the
\* cleanup of every one that returned one, and leaves the component with no
\* pending key and the flag clear (or, if the update callback wrote, with that
\* write's flush queued), so that the next changing write queues one flush.
C15_FlushCatchesCallbackErrors ==
  Flushable =>
    \A upd \in UpdateOutcomes, outs \in FlushOuts(Head(microtasks)) :
      (upd.kind = "throw" \/ \E j \in DOMAIN outs : outs[j] = "throw") =>
        LET c == Head(microtasks)
            w == FlushW(upd, outs)
        IN /\ ~w.thrown
           /\ EffectsRun(w.log) = [j \in 1 .. Len(effectQueue[c]) |-> effectQueue[c][j].meta]
           /\ \A j \in 1 .. Len(effectQueue[c]) :
                outs[j] = "cleanup" => w.hookMeta[c][effectQueue[c][j].meta].cleanup = "user"
           /\ w.effectQueue[c] = << >>
           /\ w.flushScheduled[c] <=> Count(w.microtasks, c) = 1
           /\ upd.kind = "throw" => ~w.flushScheduled[c] /\ w.pendingKeys[c] = << >>
           /\ \A key \in UserKeys, value \in Vals :
                w.state[c][key] # value =>
                  LET w2 == ProxySet(w, c, key, value)
                  IN w2.flushScheduled[c] /\ Count(w2.microtasks, c) = 1

\* The flush at the head of the queue has two queued effects and a pending key.
C15_Witness ==
  /\ Flushable
  /\ Len(effectQueue[Head(microtasks)]) = 2
  /\ Len(pendingKeys[Head(microtasks)]) > 0
  /\ LET w == FlushW([kind |-> "throw", key |-> "", val |-> 0], << "throw", "cleanup" >>)
     IN Cardinality(Places(w.log, "install")) = 1

\* The flush that follows the flush whose result is w, with callbacks that
\* only return.
FollowingFlush(w, c) ==
  FlushOp([w EXCEPT !.microtasks = Tail(@)], c,
          [kind |-> "return", key |-> "", val |-> 0],
          [j \in 1 .. Len(w.effectQueue[c]) |-> "void"])

\* C18: the writes that the update callback and the effect bodies make during
\* a flush, and the effects registered during its drain, are left to one
\* further flush: the running flush writes no node after the first such write
\* and runs the queued effects only, it queues one microtask if there was
\* such work and none otherwise, the written keys are pending and the
\* registered effects queued when it returns, and the flush that follows
\* writes the current value into the nodes bound to those keys and runs
\* those effects.
C18_WorkDuringFlushGetsNextFlush ==
  Flushable =>
    \A upd \in UpdateOutcomes, outs \in BusyOuts(Head(microtasks)) :
      LET c == Head(microtasks)
          w == FlushW(upd, outs)
          written == {w.log[i].key : i \in Places(w.log, "set")}
          registered == {w.log[i].num : i \in Places(w.log, "enqueue")}
          worked == written # {} \/ registered # {}
      IN /\ \A i \in Places(w.log, "set"), t \in Places(w.log, "text") : t < i
         /\ EffectsRun(w.log) = [j \in 1 .. Len(effectQueue[c]) |-> effectQueue[c][j].meta]
         /\ Cardinality(Places(w.log, "queueMicrotask")) = IF worked THEN 1 ELSE 0
         /\ Count(w.microtasks, c) = IF worked THEN 1 ELSE 0
         /\ w.flushScheduled[c] = worked
         /\ written = {w.pendingKeys[c][i] : i \in 1 .. Len(w.pendingKeys[c])}
         /\ registered = {w.effectQueue[c][j].meta : j \in 1 .. Len(w.effectQueue[c])}
         /\ worked =>
              /\ Head(w.microtasks) = c
              /\ LET n == FollowingFlush(w, c)
                 IN /\ \A k \in written \cap DOMAIN w.boundElements[c] :
                         \A i \in 1 .. Len(w.boundElements[c][k]) :
                           LET node == w.boundElements[c][k][i]
                           IN /\ Contains(n.log, Ev("text", c, k, node, TextFor(w, c, k)))
                              /\ n.nodeText[node] = TextFor(w, c, k)
                    /\ \A slot \in registered :
                         Contains(n.log, Ev("effect", c, "", slot, ""))
                    /\ ~n.flushScheduled[c] /\ n.microtasks = << >>

\* After a flush whose callbacks wrote the bound key and registered an
\* effect: the key is pending with its node showing the value before, the
\* effect of the slot taken during the drain is queued, and one flush is queued.
C18_Witness ==
  /\ microtasks = << "P" >>
  /\ pendingKeys["P"] = << "count" >>
  /\ "count" \in DOMAIN boundElements["P"]
  /\ nodeText[boundElements["P"]["count"][1]] # TextFor(World, "P", "count")
  /\ Len(effectQueue["P"]) = 1
  /\ effectQueue["P"][1].meta = CoreHooks
  /\ hookCounter["P"] = MaxSlots

\* The nearest element, from node upwards through every ancestor, that is a
\* registered provider, or NoElement.
RECURSIVE NearestProvider(_)
NearestProvider(node) ==
  IF node = NoElement THEN NoElement
  ELSE IF providers[node] # GlobalScope THEN node
  ELSE NearestProvider(parentNode[node])

\* useContext of c gave the value of the scope and subscribed c's callback to
\* that scope alone.
UsesScope(c, w, scope) ==
  /\ w.state[c][HookKey(hookCounter[c])] = ValueOf(World, scope)
  /\ \A o \in Scopes : Contains(SubsOf(w, o), ConsumerCb(c)) <=> o = scope

\* C11: useContext returns the value of the nearest registered provider among
\* the component's element and its ancestors, or the default value when there
\* is none, and subscribes its callback to that provider's entry, or to the
\* global Set, and to no other.
C11_UseContextNearestProvider ==
  \A c \in Comps :
    hookCounter[c] = 0 =>
      UsesScope(c, UseContextW(c), ScopeOf(World, NearestProvider(ElementOf(c))))

\* The same when the document element is not a registered provider.
NearestProviderBelowDocumentElement ==
  \A c \in Comps :
    (hookCounter[c] = 0 /\ providers[DocumentElement] = GlobalScope) =>
      UsesScope(c, UseContextW(c), ScopeOf(World, NearestProvider(ElementOf(c))))

\* The callback of c's useContext call is in no subscriber Set of w.
Unsubscribed(w, c) ==
  \A o \in 0 .. Len(w.entries) : ~Contains(SubsOf(w, o), ConsumerCb(c))

\* C17: the useContext callback of a removed component is in no subscriber
\* Set, so that no set() writes the component's state or queues a flush for it.
C17_RemovedConsumerIsUnsubscribed ==
  \A c \in Comps :
    (removed[c] /\ consumer[c].active) =>
      /\ Unsubscribed(World, c)
      /\ \A u \in Updaters, el \in ConsumerEls \cup {NoElement} :
           LET w == CtxSetW(u, el, Returning)
           IN /\ w.state[c] = state[c]
              /\ Count(w.microtasks, c) = Count(microtasks, c)

\* The same for remove() after the flush that ran the effect of useContext.
RemoveAfterFirstFlushUnsubscribes ==
  \A c \in Comps :
    (consumer[c].active /\ consumer[c].slot + 1 \in DOMAIN hookMeta[c]
       /\ hookMeta[c][consumer[c].slot + 1].cleanup = "unsubscribe") =>
      Unsubscribed(RemoveW(c, {}), c)

\* What a component's flush would do on w: its trace and the texts it leaves.
FlushOf(w, c) ==
  LET n == FlushOp([w EXCEPT !.microtasks = << >>, !.log = << >>], c,
                   [kind |-> "return", key |-> "", val |-> 0],
                   [j \in 1 .. Len(w.effectQueue[c]) |-> "void"])
  IN [trace |-> n.log, nodeText |-> n.nodeText, hookMeta |-> n.hookMeta[c]]

\* Two results agree on component c: its state, its scheduling and its next flush.
SameFor(c, w, s) ==
  /\ w.state[c] = s.state[c]
  /\ w.pendingKeys[c] = s.pendingKeys[c]
  /\ w.flushScheduled[c] = s.flushScheduled[c]
  /\ Count(w.microtasks, c) = Count(s.microtasks, c)
  /\ w.nodeText = s.nodeText
  /\ FlushOf(w, c) = FlushOf(s, c)

Literal(value) == [fn |-> FALSE, arg |-> value]

\* C20: for a consumer subscribed to the scope of a set(), one set() and two
\* set() calls in a row leave the consumer's slot holding the last value at
\* once, with one flush queued, or none when none was queued and each value
\* equalled the slot's; the consumer's state, pending keys, flag, queue entry,
\* nodes and next flush are those that the same values given to the slot's
\* setter leave.  A component whose callback is not subscribed to the scope is
\* left as it was.
C20_ContextPushIsStateWrite ==
  \A el \in PushEls \cup {NoElement}, u1 \in Updaters, u2 \in Updaters :
    LET scope == ScopeOf(World, el)
        v1 == ApplyUpdater(u1, ValueOf(World, scope))
        v2 == ApplyUpdater(u2, v1)
        w1 == CtxSetW(u1, el, Returning)
        w2 == CtxSetOp(w1, u2, el, Returning)
    IN \A c \in Comps :
         IF Contains(SubsOf(World, scope), ConsumerCb(c))
         THEN
           LET slot == consumer[c].slot
               cur == state[c][HookKey(slot)]
               s1 == SetterW(c, slot, Literal(v1))
               s2 == SetterOp(s1, c, slot, Literal(v2))
           IN /\ w1.state[c][HookKey(slot)] = v1
              /\ w2.state[c][HookKey(slot)] = v2
              /\ Count(w1.microtasks, c) = IF flushScheduled[c] \/ v1 # cur THEN 1 ELSE 0
              /\ Count(w2.microtasks, c)
                   = IF flushScheduled[c] \/ v1 # cur \/ v2 # v1 THEN 1 ELSE 0
              /\ SameFor(c, w1, s1)
              /\ SameFor(c, w2, s2)
         ELSE
           /\ w2.state[c] = state[c]
           /\ w2.pendingKeys[c] = pendingKeys[c]
           /\ Count(w2.microtasks, c) = Count(microtasks, c)

\* Both consumers are subscribed to the entry of a provider, with nothing
\* queued; P's slot is bound to a node; the set() that pushes another value
\* queues one flush for each of them.
C20_Witness ==
  \E el \in PushEls :
    /\ providers[el] # GlobalScope
    /\ Contains(SubsOf(World, providers[el]), ConsumerCb("P"))
    /\ Contains(SubsOf(World, providers[el]), ConsumerCb("K"))
    /\ microtasks = << >>
    /\ HookKey(consumer["P"].slot) \in DOMAIN boundElements["P"]
    /\ LET w == CtxSetW(Literal(NextVal(ValueOf(World, providers[el]))), el, Returning)
       IN /\ Count(w.microtasks, "P") = 1
          /\ Count(w.microtasks, "K") = 1
          /\ w.state["P"][HookKey(consumer["P"].slot)] # state["P"][HookKey(consumer["P"].slot)]

\* An operation that left every variable as it is.
Untouched(w) == [w EXCEPT !.log = << >>, !.thrown = FALSE] = World

\* C16: push and replace of a path without a registered factory throw and
\* change nothing: the current component is not removed and stays mounted and
\* current, and no history entry is written; a popstate event for such a path
\* returns without an error and changes nothing either.
C16_UnregisteredPathLeavesRouter ==
  \A path \in Paths \ routes, unmountThrows \in SUBSET Comps, mountThrows \in BOOLEAN :
    /\ \A mode \in {"push", "replace"} :
         LET w == NavigateW(path, mode, unmountThrows, mountThrows)
         IN w.thrown /\ w.log = << >> /\ Untouched(w)
    /\ LET w == OnPopW(path, unmountThrows, mountThrows)
       IN ~w.thrown /\ w.log = << >> /\ Untouched(w)

\* P is the current component, mounted on the root after two navigations, and
\* the route that produced it has been removed since.
C16_Witness ==
  /\ currentComponent = "P"
  /\ isMounted["P"]
  /\ parentNode["eP"] = Root
  /\ "/a" \notin routes
  /\ Len(history) >= 2
  /\ history[Len(history)] = "/a"

\* The dependencies a slot holds from its last registration, if any.
Registered(c, idx) == IF idx \in DOMAIN hookMeta[c] THEN hookMeta[c][idx].deps ELSE NoDeps

\* The useEffect call enqueued its effect, once, for its slot.
Enqueued(c, w) ==
  /\ Cardinality(Places(w.log, "enqueue")) = 1
  /\ w.effectQueue[c] = Append(effectQueue[c], [effect |-> "user", meta |-> hookCounter[c]])

\* The useEffect call with dependencies deps did what the comparison of deps
\* with the dependencies of the slot's last registration asks for, and left
\* deps as the slot's dependencies if it enqueued.
ComparesWithRegistered(c, w, deps) ==
  LET prev == Registered(c, hookCounter[c])
  IN IF prev.present /\ deps.present /\ Len(prev.arr) = Len(deps.arr)
          /\ \A i \in 1 .. Len(deps.arr) : prev.arr[i] = deps.arr[i]
     THEN /\ "enqueue" \notin Kinds(w.log)
          /\ w.effectQueue = effectQueue
          /\ w.hookMeta[c][hookCounter[c]].deps = prev
     ELSE /\ Enqueued(c, w)
          /\ w.hookMeta[c][hookCounter[c]].deps = deps

\* C21: a useEffect call enqueues its effect exactly when its slot holds no
\* dependency array, or it is given none, or the two arrays differ in length
\* or at some position; so a call without dependencies always enqueues and a
\* call with the empty array does not when the slot holds the empty array.
\* The array the slot holds is the one given at the slot's last enqueueing
\* registration, with the contents it had then, whatever the caller has done
\* to its array since.
C21_DepsComparison ==
  \A c \in HookUsers :
    /\ \A idx \in DOMAIN hookMeta[c] : StoredDeps(World, c, idx) = hookMeta[c][idx].deps
    /\ hookCounter[c] < CoreHooks =>
         /\ \A deps \in DepsArgs : ComparesWithRegistered(c, UseEffectArgW(c, deps), deps)
         /\ ComparesWithRegistered(c, UseEffectArrayW(c), DepsOf(callerArray))
         /\ Enqueued(c, UseEffectArgW(c, NoDeps))
         /\ Registered(c, hookCounter[c]) = DepsOf(<< >>)
              => "enqueue" \notin Kinds(UseEffectArgW(c, DepsOf(<< >>)).log)

\* The hook code is about to run again: the first slot holds a one-element
\* array from its registration and the second the empty array, and the
\* caller's array has other contents than the first slot's.
C21_Witness ==
  /\ hookCounter["P"] = 0
  /\ Registered("P", 0).present
  /\ Len(Registered("P", 0).arr) = 1
  /\ Registered("P", 1) = DepsOf(<< >>)
  /\ Len(callerArray) = 1
  /\ callerArray # Registered("P", 0).arr

\* The value a slot has after the calls, each applied to the value the one
\* before it left.
RECURSIVE Folded(_, _)
Folded(value, calls) ==
  IF calls = << >> THEN value
  ELSE Folded(CallResult(Head(calls), value), Tail(calls))

\* The burst of dispatches of the actions.
Dispatches(actions) ==
  [i \in 1 .. Len(actions) |-> [dispatch |-> TRUE, action |-> actions[i]]]

\* C22: after a burst of dispatches on a useReducer slot, or of setter calls
\* on a useState slot, the slot's getter returns the value got by applying
\* the calls in order, each to the value left by the one before, and the
\* burst has queued at most one flush: none when one was scheduled already.
C22_BurstFoldsInOrder ==
  \A c \in HookUsers : \A idx \in 0 .. hookCounter[c] - 1 : \A calls \in Bursts(idx) :
    LET w == BurstW(c, idx, calls)
    IN /\ w.state[c][HookKey(idx)] = Folded(state[c][HookKey(idx)], calls)
       /\ Cardinality(Places(w.log, "queueMicrotask")) <= 1
       /\ Len(w.microtasks) <= Len(microtasks) + 1
       /\ flushScheduled[c] => w.microtasks = microtasks
       /\ w.state[c] # state[c] => w.flushScheduled[c] /\ Count(w.microtasks, c) = 1

\* A useReducer slot holding 1 with no flush scheduled: the burst inc, reset,
\* inc leaves 1 where each action applied to the first value would leave 0,
\* and the burst inc, inc changes the value twice.
C22_Witness ==
  /\ hookCounter["P"] > 0
  /\ HookKey(0) \in DOMAIN state["P"]
  /\ state["P"][HookKey(0)] = 1
  /\ ~flushScheduled["P"]
  /\ microtasks = << >>
  /\ BurstW("P", 0, Dispatches(<<"inc", "reset", "inc">>)).state["P"][HookKey(0)] = 1
  /\ Cardinality(Places(BurstW("P", 0, Dispatches(<<"inc", "inc">>)).log, "set")) = 2
  /\ Len(BurstW("P", 0, Dispatches(<<"inc", "inc">>)).microtasks) = 1

\* The nodes bound to a key of c, in binding order.
NodesOf(c, key) == IF key \in DOMAIN boundElements[c] THEN boundElements[c][key] ELSE << >>

\* Every node bound to the key shows the text of state[key] in w.
InSync(w, c, key) ==
  \A i \in 1 .. Len(NodesOf(c, key)) : w.nodeText[NodesOf(c, key)[i]] = TextFor(w, c, key)

\* The nodes a flush wrote for the key, in the order it wrote them.
Written(trace, key) ==
  LET at == SelectSeq([i \in 1 .. Len(trace) |-> i],
                      LAMBDA i : trace[i].ev = "text" /\ trace[i].key = key)
  IN [j \in 1 .. Len(at) |-> trace[at[j]].num]

KeysBelowNextId == \A k \in DOMAIN todoState.todos : k < todoState.nextId

\* C24: every entry of todos is stored under the key that is its id field,
\* and that id is below nextId; addTodo adds one entry under a key that was
\* not in todos and leaves the other entries as they were.
C24_EntriesKeyedByOwnId ==
  /\ \A k \in DOMAIN todoState.todos :
       /\ todoState.todos[k].id = k
       /\ todoState.todos[k].id < todoState.nextId
  /\ \A text \in Inputs \ {"", " "} :
       LET next == AddTodoW(text).todoState
       IN /\ todoState.nextId \notin DOMAIN todoState.todos
          /\ DOMAIN next.todos = DOMAIN todoState.todos \cup {todoState.nextId}
          /\ \A k \in DOMAIN todoState.todos : next.todos[k] = todoState.todos[k]

====
